---- MODULE Spec2Model ----
(***************************************************************************)
(* Model of the hotel-room booking feature: the booking service            *)
(* (validateBooking, createBooking and the read queries of                 *)
(* backend/src/services/bookings.ts) on top of the bookings table, and the *)
(* browser form BookingForm with its handleSubmit.                         *)
(*                                                                         *)
(* Strings are sequences of one-character strings, so that trimming, the   *)
(* date regular expression, date parsing, date formatting and the string   *)
(* comparisons of the form are computed and not assumed.  A Date is the    *)
(* number of its local calendar day (days since 1970-01-01), NaN is the    *)
(* invalid Date.                                                           *)
(***************************************************************************)
EXTENDS Integers, Sequences, FiniteSets, TLC

VARIABLES
    bookings,   \* the bookings table: rows in rowid order
    today,      \* the clock: number of the current calendar day
    response,   \* the outcome of the last service call, until the caller takes it
    form,       \* BookingForm's React state
    request     \* the createBooking API request of the form that is in flight

vars == <<bookings, today, response, form, request>>

----------------------------------------------------------------------------
(* Bounds of the model *)

\* rows the bookings table may hold
MaxBookings == 2
\* days the clock may advance after the first day
MaxTicks == 1

----------------------------------------------------------------------------
(* Strings *)

Digits == <<"0", "1", "2", "3", "4", "5", "6", "7", "8", "9">>

IsDigit(c) == \E i \in 1..10 : Digits[i] = c

DigitVal(c) == (CHOOSE i \in 1..10 : Digits[i] = c) - 1

\* UTF-16 code unit of the characters the model uses
CharCode(c) ==
    CASE c = " " -> 32
      [] c = "-" -> 45
      [] IsDigit(c) -> 48 + DigitVal(c)
      [] c = "a" -> 97
      [] c = "e" -> 101

\* JavaScript's s < t on strings: lexicographic by code unit
RECURSIVE StrLess(_, _)
StrLess(s, t) ==
    IF t = <<>> THEN FALSE
    ELSE IF s = <<>> THEN TRUE
    ELSE IF CharCode(Head(s)) /= CharCode(Head(t))
         THEN CharCode(Head(s)) < CharCode(Head(t))
    ELSE StrLess(Tail(s), Tail(t))

StrLessEq(s, t) == s = t \/ StrLess(s, t)

RECURSIVE trimStart(_)
trimStart(s) ==
    IF s /= <<>> /\ Head(s) = " " THEN trimStart(Tail(s)) ELSE s

RECURSIVE trimEnd(_)
trimEnd(s) ==
    IF s /= <<>> /\ s[Len(s)] = " " THEN trimEnd(SubSeq(s, 1, Len(s) - 1)) ELSE s

\* String.prototype.trim
trim(s) == trimEnd(trimStart(s))

----------------------------------------------------------------------------
(* Dates *)

NaN == 0 - 1000000

\* number of the day y-m-d, d counted on from the first of the month
\* (Date's MakeDay: a day past the end of the month runs into the next)
DayNum(y, m, d) ==
    LET yy  == IF m <= 2 THEN y - 1 ELSE y
        era == yy \div 400
        yoe == yy - era * 400
        mp  == (m + 9) % 12
        doy == (153 * mp + 2) \div 5 + d - 1
        doe == yoe * 365 + yoe \div 4 - yoe \div 100 + doy
    IN  era * 146097 + doe - 719468

\* the calendar date <<y, m, d>> of day number n
CivilDate(n) ==
    LET z   == n + 719468
        era == z \div 146097
        doe == z - era * 146097
        yoe == (doe - doe \div 1460 + doe \div 36524 - doe \div 146096) \div 365
        doy == doe - (365 * yoe + yoe \div 4 - yoe \div 100)
        mp  == (5 * doy + 2) \div 153
        d   == doy - (153 * mp + 2) \div 5 + 1
        m   == IF mp < 10 THEN mp + 3 ELSE mp - 9
        y   == yoe + era * 400 + (IF m <= 2 THEN 1 ELSE 0)
    IN  <<y, m, d>>

Pad2(n) == <<Digits[((n \div 10) % 10) + 1], Digits[(n % 10) + 1]>>

Pad4(n) == Pad2(n \div 100) \o Pad2(n % 100)

\* the text yyyy-MM-dd with the given numbers, whether or not they name a date
DateText(y, m, d) == Pad4(y) \o <<"-">> \o Pad2(m) \o <<"-">> \o Pad2(d)

\* date-fns format(date, 'yyyy-MM-dd')
format(n) == LET c == CivilDate(n) IN DateText(c[1], c[2], c[3])

Num2(s, i) == 10 * DigitVal(s[i]) + DigitVal(s[i + 1])

\* /^\d{4}-\d{2}-\d{2}$/.test(s)
dateRegexTest(s) ==
    /\ Len(s) = 10
    /\ \A i \in 1..10 : IF i \in {5, 8} THEN s[i] = "-" ELSE IsDigit(s[i])

\* new Date(s + 'T00:00:00') for a string the regular expression accepts, as
\* Node's V8 parses it: local time, a month of 01..12 and a day of 01..31 are
\* accepted in every month, anything else is the invalid Date
ParseDate(s) ==
    LET y == 100 * Num2(s, 1) + Num2(s, 3)
        m == Num2(s, 6)
        d == Num2(s, 9)
    IN  IF m \in 1..12 /\ d \in 1..31 THEN DayNum(y, m, d) ELSE NaN

----------------------------------------------------------------------------
(* The booking service *)

NoError == ""

\* isBlank without the trim: only the empty string is blank
isBlank_emptyOnly(s) == s = <<>>

\* !s || s.trim() === ''
isBlank(s) == s = <<>> \/ trim(s) = <<>>

\* validateBooking with the check of room_id moved to the front
validateBooking_roomIdFirst(input, now) ==
    IF input.room_id = 0 THEN "Room ID is required"
    ELSE IF isBlank(input.guest_name) THEN "Guest name is required"
    ELSE IF isBlank(input.guest_email) THEN "Guest email is required"
    ELSE IF input.check_in = <<>> THEN "Check-in date is required"
    ELSE IF input.check_out = <<>> THEN "Check-out date is required"
    ELSE IF ~dateRegexTest(input.check_in)
         THEN "Check-in date must be in YYYY-MM-DD format"
    ELSE IF ~dateRegexTest(input.check_out)
         THEN "Check-out date must be in YYYY-MM-DD format"
    ELSE IF ParseDate(input.check_in) = NaN
         THEN "Check-in date is not a valid date"
    ELSE IF ParseDate(input.check_out) = NaN
         THEN "Check-out date is not a valid date"
    ELSE IF ParseDate(input.check_in) < now
         THEN "Check-in date must be today or later"
    ELSE IF ParseDate(input.check_out) <= ParseDate(input.check_in)
         THEN "Check-out date must be after the check-in date"
    ELSE NoError

\* validateBooking: the message of the Error it throws, NoError when it returns.
\* now is the day the clock shows (new Date() with the time set to 0:00).
validateBooking(input, now) ==
    IF isBlank(input.guest_name) THEN "Guest name is required"
    ELSE IF isBlank(input.guest_email) THEN "Guest email is required"
    ELSE IF input.check_in = <<>> THEN "Check-in date is required"
    ELSE IF input.check_out = <<>> THEN "Check-out date is required"
    ELSE IF ~dateRegexTest(input.check_in)
         THEN "Check-in date must be in YYYY-MM-DD format"
    ELSE IF ~dateRegexTest(input.check_out)
         THEN "Check-out date must be in YYYY-MM-DD format"
    ELSE IF ParseDate(input.check_in) = NaN
         THEN "Check-in date is not a valid date"
    ELSE IF ParseDate(input.check_out) = NaN
         THEN "Check-out date is not a valid date"
    ELSE IF ParseDate(input.check_in) < now
         THEN "Check-in date must be today or later"
    ELSE IF ParseDate(input.check_out) <= ParseDate(input.check_in)
         THEN "Check-out date must be after the check-in date"
    ELSE IF input.room_id = 0 THEN "Room ID is required"
    ELSE NoError

\* the ids of the rooms table
Rooms == {1, 2}

\* SELECT id FROM rooms WHERE id = ?
RoomExists(room_id) == room_id \in Rooms

RECURSIVE MaxId(_)
MaxId(rows) ==
    IF rows = <<>> THEN 0
    ELSE LET m == MaxId(Tail(rows))
         IN  IF Head(rows).id > m THEN Head(rows).id ELSE m

\* the rowid the store assigns to an inserted row
lastInsertRowid(rows) == MaxId(rows) + 1

\* InsertBooking with the name and the email as submitted
InsertBooking_untrimmed(rows, input) ==
    Append(rows, [id          |-> lastInsertRowid(rows),
                  room_id     |-> input.room_id,
                  guest_name  |-> input.guest_name,
                  guest_email |-> input.guest_email,
                  check_in    |-> input.check_in,
                  check_out   |-> input.check_out])

\* INSERT INTO bookings (room_id, guest_name, guest_email, check_in, check_out)
InsertBooking(rows, input) ==
    Append(rows, [id          |-> lastInsertRowid(rows),
                  room_id     |-> input.room_id,
                  guest_name  |-> trim(input.guest_name),
                  guest_email |-> trim(input.guest_email),
                  check_in    |-> input.check_in,
                  check_out   |-> input.check_out])

\* SELECT * FROM bookings WHERE id = ?: the rows found, none or one
SelectById(rows, id) == SelectSeq(rows, LAMBDA r : r.id = id)

\* createBooking with a check against the stored bookings of the room that
\* takes the stays as closed intervals, so that stays that only touch collide
createBooking_rejectsTouching(input, rows, now) ==
    LET err == validateBooking(input, now)
    IN  IF err /= NoError
        THEN [error |-> err, booking |-> <<>>, rows |-> rows, roomQueried |-> FALSE]
        ELSE IF ~RoomExists(input.room_id)
        THEN [error |-> "Room not found", booking |-> <<>>, rows |-> rows,
              roomQueried |-> TRUE]
        ELSE IF \E i \in 1..Len(rows) :
                    /\ rows[i].room_id = input.room_id
                    /\ StrLessEq(rows[i].check_in, input.check_out)
                    /\ StrLessEq(input.check_in, rows[i].check_out)
        THEN [error |-> "Booking dates overlap an existing booking", booking |-> <<>>,
              rows |-> rows, roomQueried |-> TRUE]
        ELSE LET after == InsertBooking(rows, input)
             IN  [error |-> NoError,
                  booking |-> SelectById(after, lastInsertRowid(rows)),
                  rows |-> after, roomQueried |-> TRUE]

\* createBooking without the check that the room exists
createBooking_noRoomCheck(input, rows, now) ==
    LET err == validateBooking(input, now)
    IN  IF err /= NoError
        THEN [error |-> err, booking |-> <<>>, rows |-> rows, roomQueried |-> FALSE]
        ELSE LET after == InsertBooking(rows, input)
             IN  [error |-> NoError,
                  booking |-> SelectById(after, lastInsertRowid(rows)),
                  rows |-> after, roomQueried |-> FALSE]

\* createBooking that inserts the row before it checks that the room exists
createBooking_insertsFirst(input, rows, now) ==
    LET err   == validateBooking(input, now)
        after == InsertBooking(rows, input)
    IN  IF err /= NoError
        THEN [error |-> err, booking |-> <<>>, rows |-> rows, roomQueried |-> FALSE]
        ELSE IF ~RoomExists(input.room_id)
        THEN [error |-> "Room not found", booking |-> <<>>, rows |-> after,
              roomQueried |-> TRUE]
        ELSE [error |-> NoError,
              booking |-> SelectById(after, lastInsertRowid(rows)),
              rows |-> after, roomQueried |-> TRUE]

\* createBooking on the table rows: the message of the Error thrown (NoError
\* when it returns), the booking returned, the table afterwards and whether the
\* rooms table was queried
createBooking(input, rows, now) ==
    LET err == validateBooking(input, now)
    IN  IF err /= NoError
        THEN [error |-> err, booking |-> <<>>, rows |-> rows, roomQueried |-> FALSE]
        ELSE IF ~RoomExists(input.room_id)
        THEN [error |-> "Room not found", booking |-> <<>>, rows |-> rows,
              roomQueried |-> TRUE]
        ELSE LET after == InsertBooking(rows, input)
             IN  [error |-> NoError,
                  booking |-> SelectById(after, lastInsertRowid(rows)),
                  rows |-> after, roomQueried |-> TRUE]

\* the orders in which ORDER BY check_in may return the rows: every
\* arrangement of them that ascends by check_in
OrderedByCheckIn(rows) ==
    LET n == Len(rows)
        Perms == {p \in [1..n -> 1..n] : \A i, j \in 1..n : i /= j => p[i] /= p[j]}
    IN  {[i \in 1..n |-> rows[p[i]]] : p \in
            {q \in Perms : \A i \in 1..n - 1 :
                StrLessEq(rows[q[i]].check_in, rows[q[i + 1]].check_in)}}

----------------------------------------------------------------------------
(* Inputs *)

FirstDay == DayNum(2025, 2, 28)

GuestNames == {<<>>, <<" ">>, <<" ", "a", " ">>}

GuestEmails == {<<>>, <<" ">>, <<"e", " ">>}

\* empty, not in the format, in the format and no date for the parser, the
\* thirtieth of February, and dates of the calendar
DateInputs ==
    {<<>>,
     <<"2", "0", "2", "5", "-", "3", "-", "1">>,
     DateText(2025, 2, 32),
     DateText(2025, 2, 28), DateText(2025, 2, 30),
     DateText(2025, 3, 1), DateText(2025, 3, 3)}

\* 0 is a room_id that is falsy, 3 one that names no room
RoomIds == {0, 1, 2, 3}

Inputs ==
    [guest_name : GuestNames, guest_email : GuestEmails,
     check_in : DateInputs, check_out : DateInputs, room_id : RoomIds]

----------------------------------------------------------------------------
(* BookingForm *)

\* the room the form is rendered for (the room prop)
FormRoom == [id |-> 1]

\* the component's consts today and tomorrow, computed when it renders
Render(f, now) == [f EXCEPT !.today = format(now), !.tomorrow = format(now + 1)]

\* the useState values
StateOf(f) ==
    <<f.guestName, f.guestEmail, f.checkIn, f.checkOut, f.submitting, f.error, f.success>>

\* React renders the component again when a state value has changed
Rerender(old, new, now) == IF StateOf(new) = StateOf(old) THEN new ELSE Render(new, now)

\* the state after the first render; error is <<>> for null, <<m>> for a message
InitForm ==
    Render([guestName |-> <<>>, guestEmail |-> <<>>,
            checkIn |-> format(FirstDay), checkOut |-> format(FirstDay + 1),
            submitting |-> FALSE, error |-> <<>>, success |-> FALSE,
            today |-> <<>>, tomorrow |-> <<>>], FirstDay)

\* the local calendar day of new Date(value), which reads a date without a
\* time as midnight UTC: the day before, west of Greenwich
ParseDateUTC(value, west) ==
    IF ~dateRegexTest(value) \/ ParseDate(value) = NaN THEN NaN
    ELSE IF west THEN ParseDate(value) - 1 ELSE ParseDate(value)

\* handleCheckInChange; format throws on an invalid Date, after setCheckIn
handleCheckInChange(f, value, west) ==
    LET g == [f EXCEPT !.checkIn = value]
    IN  IF StrLessEq(f.checkOut, value) /\ ParseDateUTC(value, west) /= NaN
        THEN [g EXCEPT !.checkOut = format(ParseDateUTC(value, west) + 1)]
        ELSE g

\* handleSubmit up to its await: the state it sets and the request it sends
\* (none when it returns early), which keeps the handler's today and tomorrow
handleSubmitStart(f) ==
    LET g == [f EXCEPT !.error = <<>>, !.success = FALSE]
    IN  IF StrLess(f.checkIn, f.today)
        THEN [form |-> [g EXCEPT !.error = <<"Check-in date must be today or later.">>],
              request |-> <<>>]
        ELSE IF StrLessEq(f.checkOut, f.checkIn)
        THEN [form |-> [g EXCEPT !.error = <<"Check-out date must be after the check-in date.">>],
              request |-> <<>>]
        ELSE [form |-> [g EXCEPT !.submitting = TRUE],
              request |-> <<[room_id |-> FormRoom.id, guest_name |-> f.guestName,
                             guest_email |-> f.guestEmail, check_in |-> f.checkIn,
                             check_out |-> f.checkOut,
                             today |-> f.today, tomorrow |-> f.tomorrow]>>]

\* what a throw leaves in error: err instanceof Error ? err.message : ...
CaughtMessage(thrown) ==
    IF thrown.isError THEN thrown.message ELSE "Failed to create booking"

\* handleSubmitSettle without the finally: submitting is set back only at the
\* end of the try block
handleSubmitSettle_noFinally(f, req, outcome) ==
    IF outcome.kind = "reject"
    THEN [f EXCEPT !.error = <<CaughtMessage(outcome.thrown)>>]
    ELSE LET reset == [f EXCEPT !.success = TRUE, !.guestName = <<>>,
                                !.guestEmail = <<>>, !.checkIn = req.today,
                                !.checkOut = req.tomorrow, !.submitting = FALSE]
         IN  IF outcome.onSuccess = "throws"
             THEN [reset EXCEPT !.error = <<CaughtMessage(outcome.thrown)>>]
             ELSE reset

\* handleSubmit from its await on.  outcome.kind is "resolve" or "reject" (with
\* outcome.thrown); on resolve outcome.onSuccess tells what the onSuccess prop
\* does: "absent", "returns" or "throws" (with outcome.thrown)
handleSubmitSettle(f, req, outcome) ==
    LET reset == [f EXCEPT !.success = TRUE, !.guestName = <<>>, !.guestEmail = <<>>,
                           !.checkIn = req.today, !.checkOut = req.tomorrow]
        tried == IF outcome.kind = "reject"
                 THEN [f EXCEPT !.error = <<CaughtMessage(outcome.thrown)>>]
                 ELSE IF outcome.onSuccess = "throws"
                 THEN [reset EXCEPT !.error = <<CaughtMessage(outcome.thrown)>>]
                 ELSE reset
    IN  [tried EXCEPT !.submitting = FALSE]

FormNames == {<<>>, <<"a">>}

FormEmails == {<<>>, <<"e">>}

\* the values of a date input: empty or a date of the calendar
FormDates == {<<>>, DateText(2025, 2, 28), DateText(2025, 3, 1), DateText(2025, 3, 3)}

Thrown ==
    {[isError |-> TRUE, message |-> "Room not found"],
     [isError |-> TRUE, message |-> "Guest name is required"],
     [isError |-> FALSE, message |-> ""]}

NoThrow == [isError |-> FALSE, message |-> ""]

Outcomes ==
    {[kind |-> "reject", onSuccess |-> "absent", thrown |-> t] : t \in Thrown}
    \cup {[kind |-> "resolve", onSuccess |-> o, thrown |-> NoThrow] : o \in {"absent", "returns"}}
    \cup {[kind |-> "resolve", onSuccess |-> "throws", thrown |-> t] : t \in Thrown}

----------------------------------------------------------------------------
(* The service's operations *)

Idle == [op |-> "none"]

Init ==
    /\ bookings = <<>>
    /\ today = FirstDay
    /\ response = Idle
    /\ form = InitForm
    /\ request = <<>>

\* a call of createBooking
CreateBooking(input) ==
    /\ response = Idle
    /\ Len(bookings) < MaxBookings
    /\ LET r == createBooking(input, bookings, today)
       IN  /\ bookings' = r.rows
           /\ response' = [op |-> "createBooking", input |-> input,
                           error |-> r.error, booking |-> r.booking,
                           roomQueried |-> r.roomQueried]
    /\ UNCHANGED <<today, form, request>>

\* a call of getBookingsByRoom
GetBookingsByRoom(roomId) ==
    /\ response = Idle
    /\ \E result \in OrderedByCheckIn(SelectSeq(bookings, LAMBDA r : r.room_id = roomId)) :
          response' = [op |-> "getBookingsByRoom", result |-> result]
    /\ UNCHANGED <<bookings, today, form, request>>

\* a call of getAllBookings
GetAllBookings ==
    /\ response = Idle
    /\ \E result \in OrderedByCheckIn(bookings) :
          response' = [op |-> "getAllBookings", result |-> result]
    /\ UNCHANGED <<bookings, today, form, request>>

\* a call of getBookingById
GetBookingById(id) ==
    /\ response = Idle
    /\ response' = [op |-> "getBookingById", result |-> SelectById(bookings, id)]
    /\ UNCHANGED <<bookings, today, form, request>>

\* the caller takes the outcome of the call
Return ==
    /\ response /= Idle
    /\ response' = Idle
    /\ UNCHANGED <<bookings, today, form, request>>

\* midnight passes; a call is synchronous and reads the clock within itself
Tick ==
    /\ response = Idle
    /\ today < FirstDay + MaxTicks
    /\ today' = today + 1
    /\ UNCHANGED <<bookings, response, form, request>>

Next ==
    \/ \E input \in Inputs : CreateBooking(input)
    \/ \E roomId \in RoomIds : GetBookingsByRoom(roomId)
    \/ GetAllBookings
    \/ \E id \in 1..MaxBookings + 1 : GetBookingById(id)
    \/ Return
    \/ Tick

Spec == Init /\ [][Next]_vars

----------------------------------------------------------------------------
(* The form's operations.  The inputs and the button are disabled while      *)
(* submitting is true.                                                       *)

SetGuestName(value) ==
    /\ ~form.submitting
    /\ form' = Rerender(form, [form EXCEPT !.guestName = value], today)
    /\ UNCHANGED <<bookings, today, response, request>>

SetGuestEmail(value) ==
    /\ ~form.submitting
    /\ form' = Rerender(form, [form EXCEPT !.guestEmail = value], today)
    /\ UNCHANGED <<bookings, today, response, request>>

HandleCheckInChange(value) ==
    /\ ~form.submitting
    /\ \E west \in BOOLEAN :
          form' = Rerender(form, handleCheckInChange(form, value, west), today)
    /\ UNCHANGED <<bookings, today, response, request>>

SetCheckOut(value) ==
    /\ ~form.submitting
    /\ form' = Rerender(form, [form EXCEPT !.checkOut = value], today)
    /\ UNCHANGED <<bookings, today, response, request>>

\* the form is submitted: handleSubmit runs up to its await
HandleSubmit ==
    /\ ~form.submitting
    /\ LET r == handleSubmitStart(form)
       IN  /\ form' = Rerender(form, r.form, today)
           /\ request' = r.request
    /\ UNCHANGED <<bookings, today, response>>

\* the request settles: handleSubmit runs from its await to its end
Settle(outcome) ==
    /\ request /= <<>>
    /\ form' = Rerender(form, handleSubmitSettle(form, request[1], outcome), today)
    /\ request' = <<>>
    /\ UNCHANGED <<bookings, today, response>>

Settles == \E outcome \in Outcomes : Settle(outcome)

NextForm ==
    \/ \E value \in FormNames : SetGuestName(value)
    \/ \E value \in FormEmails : SetGuestEmail(value)
    \/ \E value \in FormDates : HandleCheckInChange(value)
    \/ \E value \in FormDates : SetCheckOut(value)
    \/ HandleSubmit
    \/ Settles
    \/ Tick

\* a request that was sent settles
SpecForm == Init /\ [][NextForm]_vars /\ WF_vars(Settles)

----------------------------------------------------------------------------
(* Vocabulary of the properties, stated without the helpers of the service *)

\* the last call was createBooking
Created == response.op = "createBooking"

Rejected == Created /\ response.error /= NoError

\* createBooking returned a booking that carries an identifier
Succeeded ==
    /\ Created
    /\ response.error = NoError
    /\ Len(response.booking) = 1
    /\ response.booking[1].id \in Nat \ {0}

\* this step is a call of createBooking
CreateStep == response = Idle /\ response'.op = "createBooking"

\* the step's call returned a booking that carries an identifier
SucceedsNext ==
    /\ response'.error = NoError
    /\ Len(response'.booking) = 1
    /\ response'.booking[1].id \in Nat \ {0}

\* nothing but white space
Blank(s) == \A i \in 1..Len(s) : s[i] = " "

\* s without the white space around it
Stripped(s) ==
    LET ink == {i \in 1..Len(s) : s[i] /= " "}
    IN  IF ink = {} THEN <<>>
        ELSE SubSeq(s, CHOOSE i \in ink : \A j \in ink : i <= j,
                       CHOOSE i \in ink : \A j \in ink : j <= i)

\* the texts of the dates of the calendar around the model's dates
CalendarDates == {format(n) : n \in (FirstDay - 31)..(FirstDay + 31)}

\* s is the text of a date of the calendar
IsCalendarDate(s) == s \in CalendarDates

\* the date texts s and t in the order of stored text: for dates of the
\* calendar, the order of the days
Before(s, t) == StrLess(s, t)

\* the half-open stays [ci, co) and [row.check_in, row.check_out) share a night
Overlaps(ci, co, row) == Before(row.check_in, co) /\ Before(ci, row.check_out)

\* the stays meet end to start
Touches(ci, co, row) == co = row.check_in \/ ci = row.check_out

\* valid input: fields not blank, dates of the calendar, check-in not before
\* the day now, check-out after check-in, a room that exists
ValidInput(input, now) ==
    /\ ~Blank(input.guest_name)
    /\ ~Blank(input.guest_email)
    /\ IsCalendarDate(input.check_in)
    /\ IsCalendarDate(input.check_out)
    /\ ~Before(input.check_in, format(now))
    /\ Before(input.check_in, input.check_out)
    /\ input.room_id \in Rooms

\* a stored booking of the input's room overlaps the input's stay
Conflicts(input, rows) ==
    \E i \in 1..Len(rows) :
        /\ rows[i].room_id = input.room_id
        /\ Overlaps(input.check_in, input.check_out, rows[i])

----------------------------------------------------------------------------
(* C1 *)

\* the row's dates are dates of the calendar
CalendarRow(row) == IsCalendarDate(row.check_in) /\ IsCalendarDate(row.check_out)

\* the table before the last call of createBooking
TableBefore ==
    IF response.error = NoError THEN SubSeq(bookings, 1, Len(bookings) - 1) ELSE bookings

\* C1: no two stored bookings of the same room have overlapping half-open
\* stays [check_in, check_out), and a createBooking whose stay overlaps a
\* stored booking of its room is rejected with an overlap error and inserts
\* nothing.  Stated of the bookings whose dates are dates of the calendar.
C1_NoOverlappingBookings ==
    /\ \A i, j \in 1..Len(bookings) :
          (/\ i < j
           /\ bookings[i].room_id = bookings[j].room_id
           /\ CalendarRow(bookings[i]) /\ CalendarRow(bookings[j]))
              => ~Overlaps(bookings[j].check_in, bookings[j].check_out, bookings[i])
    /\ (/\ Created
        /\ ValidInput(response.input, today)
        /\ Conflicts(response.input, SelectSeq(TableBefore, CalendarRow)))
          => Rejected

----------------------------------------------------------------------------
(* C2 *)

\* the input's stay touches a stored booking of its room and overlaps none
TouchesOnly(input, rows) ==
    /\ \E i \in 1..Len(rows) :
          /\ rows[i].room_id = input.room_id
          /\ Touches(input.check_in, input.check_out, rows[i])
    /\ ~Conflicts(input, rows)

\* the input's stay overlaps stored bookings, all of them of other rooms
OverlapsOtherRoomsOnly(input, rows) ==
    /\ \E i \in 1..Len(rows) :
          /\ rows[i].room_id /= input.room_id
          /\ Overlaps(input.check_in, input.check_out, rows[i])
    /\ ~Conflicts(input, rows)

\* C2: createBooking with valid input whose stay only touches a stored
\* booking of the same room, or overlaps bookings of other rooms only,
\* succeeds and returns a booking with an identifier.
C2_TouchingAndOtherRoomsAllowed ==
    [][(/\ CreateStep
        /\ ValidInput(response'.input, today)
        /\ \/ TouchesOnly(response'.input, bookings)
           \/ OverlapsOtherRoomsOnly(response'.input, bookings))
       => SucceedsNext]_vars

\* valid input was stored whose stay touches the stay of the booking of the
\* same room that the table held
C2_Witness ==
    /\ Succeeded
    /\ Len(bookings) = 2
    /\ bookings[2] = response.booking[1]
    /\ ValidInput(response.input, today)
    /\ CalendarRow(bookings[1])
    /\ TouchesOnly(response.input, <<bookings[1]>>)

----------------------------------------------------------------------------
(* C3 *)

\* the step's call stored and returned the booking with these names
ReturnsStored(name, email) ==
    LET input == response'.input
        row   == response'.booking[1]
    IN  /\ SucceedsNext
        /\ \A i \in 1..Len(bookings) : bookings[i].id /= row.id
        /\ bookings' = Append(bookings, row)
        /\ row = [id |-> row.id, room_id |-> input.room_id,
                  guest_name |-> name, guest_email |-> email,
                  check_in |-> input.check_in, check_out |-> input.check_out]

\* C3 as amended: createBooking with valid input on a store with no
\* conflicting booking succeeds and returns the stored booking, which carries
\* a store-assigned identifier, the submitted room and dates, and the
\* submitted guest name and email without the white space around them.
C3_ValidInputCreatesTrimmed ==
    [][(CreateStep /\ ValidInput(response'.input, today)
            /\ ~Conflicts(response'.input, bookings))
       => ReturnsStored(Stripped(response'.input.guest_name),
                        Stripped(response'.input.guest_email))]_vars

\* C3 as claimed: ... the returned booking carries the submitted guest name
\* and email.
C3_ValidInputCreatesVerbatim ==
    [][(CreateStep /\ ValidInput(response'.input, today)
            /\ ~Conflicts(response'.input, bookings))
       => ReturnsStored(response'.input.guest_name,
                        response'.input.guest_email)]_vars

\* valid input with white space around the name was stored on a store without
\* a conflicting booking
C3_Witness ==
    /\ Succeeded
    /\ ValidInput(response.input, today)
    /\ response.input.guest_name /= Stripped(response.input.guest_name)
    /\ bookings[Len(bookings)] = response.booking[1]
    /\ Len(bookings) = 2
    /\ ~Conflicts(response.input, <<bookings[1]>>)

----------------------------------------------------------------------------
(* C4 *)

\* C4: createBooking rejects every input whose check_out is on or before its
\* check_in, so that every stored booking satisfies check_out > check_in.
C4_CheckOutAfterCheckIn ==
    /\ (Created /\ ~Before(response.input.check_in, response.input.check_out))
          => Rejected
    /\ \A i \in 1..Len(bookings) :
          Before(bookings[i].check_in, bookings[i].check_out)

----------------------------------------------------------------------------
(* C5 *)

\* C5: createBooking rejects every input whose check_in is before the
\* current day and rejects none on this ground whose check_in is the current
\* day; hence no booking is stored with a check_in earlier than the day of its
\* creation.
C5_CheckInNotBeforeToday ==
    Created =>
        /\ (dateRegexTest(response.input.check_in)
                /\ Before(response.input.check_in, format(today)))
              => Rejected
        /\ response.input.check_in = format(today)
              => response.error /= "Check-in date must be today or later"
        /\ response.error = NoError
              => ~Before(response.booking[1].check_in, format(today))

----------------------------------------------------------------------------
(* C6 *)

\* the input would be valid with another value in the field
OnlyFieldInvalid(input, field, values) ==
    \E v \in values : ValidInput([input EXCEPT ![field] = v], today)

\* C6: validateBooking rejects a blank guest_name, a blank guest_email, an
\* empty check_in, an empty check_out and a falsy room_id each with the
\* field's own message, when the field is the only violated precondition.
C6_BlankFieldMessages ==
    Created =>
        LET input == response.input
        IN  /\ (Blank(input.guest_name) /\ OnlyFieldInvalid(input, "guest_name", GuestNames))
                  => response.error = "Guest name is required"
            /\ (Blank(input.guest_email) /\ OnlyFieldInvalid(input, "guest_email", GuestEmails))
                  => response.error = "Guest email is required"
            /\ (input.check_in = <<>> /\ OnlyFieldInvalid(input, "check_in", DateInputs))
                  => response.error = "Check-in date is required"
            /\ (input.check_out = <<>> /\ OnlyFieldInvalid(input, "check_out", DateInputs))
                  => response.error = "Check-out date is required"
            /\ (input.room_id = 0 /\ OnlyFieldInvalid(input, "room_id", RoomIds))
                  => response.error = "Room ID is required"

\* a name of white space only, in input that is valid otherwise, was rejected
C6_Witness ==
    /\ Created
    /\ response.input.guest_name = <<" ">>
    /\ OnlyFieldInvalid(response.input, "guest_name", GuestNames)
    /\ response.error = "Guest name is required"

----------------------------------------------------------------------------
(* C7 *)

\* C7: createBooking with input that passes validateBooking and a room_id
\* that is not in the rooms table fails with 'Room not found' and inserts no
\* row.
C7_RoomNotFound ==
    [][(/\ CreateStep
        /\ validateBooking(response'.input, today) = NoError
        /\ response'.input.room_id \notin Rooms)
       => (response'.error = "Room not found" /\ bookings' = bookings)]_vars

\* input that passes validateBooking named no room and was rejected
C7_Witness ==
    /\ Created
    /\ ValidInput([response.input EXCEPT !.room_id = 1], today)
    /\ response.input.room_id = 3
    /\ response.error = "Room not found"
    /\ Len(bookings) = 1

----------------------------------------------------------------------------
(* C8 *)

\* the Date the service makes of a date string
Parsed(s) == IF dateRegexTest(s) THEN ParseDate(s) ELSE NaN

\* the preconditions of createBooking in their order, each with its message
\* and with whether the input violates it
Preconditions(input, now) ==
    LET ci == Parsed(input.check_in)
        co == Parsed(input.check_out)
    IN  << [message |-> "Guest name is required",
            violated |-> isBlank(input.guest_name)],
           [message |-> "Guest email is required",
            violated |-> isBlank(input.guest_email)],
           [message |-> "Check-in date is required",
            violated |-> input.check_in = <<>>],
           [message |-> "Check-out date is required",
            violated |-> input.check_out = <<>>],
           [message |-> "Check-in date must be in YYYY-MM-DD format",
            violated |-> ~dateRegexTest(input.check_in)],
           [message |-> "Check-out date must be in YYYY-MM-DD format",
            violated |-> ~dateRegexTest(input.check_out)],
           [message |-> "Check-in date is not a valid date",
            violated |-> ci = NaN],
           [message |-> "Check-out date is not a valid date",
            violated |-> co = NaN],
           [message |-> "Check-in date must be today or later",
            violated |-> ci /= NaN /\ ci < now],
           [message |-> "Check-out date must be after the check-in date",
            violated |-> ci /= NaN /\ co /= NaN /\ co <= ci],
           [message |-> "Room ID is required",
            violated |-> input.room_id = 0],
           [message |-> "Room not found",
            violated |-> input.room_id \notin Rooms] >>

\* the places of the violated preconditions
ViolatedAt(input, now) ==
    LET pre == Preconditions(input, now)
    IN  {k \in 1..Len(pre) : pre[k].violated}

\* C8: createBooking fails fast: its error is the one of the first violated
\* precondition in the fixed order, there is none when no precondition is
\* violated, and the rooms table is queried only when no precondition before
\* the room's existence is violated.
C8_FailFast ==
    Created =>
        LET pre   == Preconditions(response.input, today)
            at    == ViolatedAt(response.input, today)
            first == CHOOSE k \in at : \A j \in at : k <= j
        IN  /\ at = {} => response.error = NoError
            /\ at /= {} => response.error = pre[first].message
            /\ response.roomQueried <=> (at = {} \/ first = Len(pre))

\* input that violates several preconditions was rejected for the first, here
\* the format of check_in before the blank room_id, without a query of rooms
C8_Witness ==
    /\ Created
    /\ Cardinality(ViolatedAt(response.input, today)) >= 3
    /\ response.error = "Check-in date must be in YYYY-MM-DD format"
    /\ response.input.room_id = 0
    /\ ~response.roomQueried

----------------------------------------------------------------------------
(* C9 *)

\* C9: a call of createBooking that is rejected leaves the table as it was,
\* one that succeeds appends one row whose identifier no stored row has and
\* leaves the stored rows as they were, and every other operation
\* (getBookingsByRoom, getAllBookings, getBookingById among them) leaves the
\* table as it was.
C9_AtMostOneRowAdded ==
    [][IF CreateStep
       THEN IF response'.error /= NoError
            THEN bookings' = bookings
            ELSE /\ Len(bookings') = Len(bookings) + 1
                 /\ SubSeq(bookings', 1, Len(bookings)) = bookings
                 /\ \A i \in 1..Len(bookings) :
                       bookings[i].id /= bookings'[Len(bookings')].id
       ELSE bookings' = bookings]_vars

\* a row was added to a table that held one
C9_Witness ==
    /\ Created
    /\ response.error = NoError
    /\ Len(bookings) = 2
    /\ bookings[2] = response.booking[1]
    /\ bookings[2].id /= bookings[1].id

----------------------------------------------------------------------------
(* C10 *)

\* handleSubmit returns before it sends the request
ReturnsEarly(f) == StrLess(f.checkIn, f.today) \/ StrLessEq(f.checkOut, f.checkIn)

\* the fields the user enters
Fields(f) == <<f.guestName, f.guestEmail, f.checkIn, f.checkOut>>

\* a submit that fails the form's own checks sets an error, sends no request
\* and does not set submitting; any other submit sets submitting and sends
\* the request with the entered fields
SubmitChecked ==
    [][HandleSubmit =>
        IF ReturnsEarly(form)
        THEN /\ form'.error /= <<>>
             /\ ~form'.success
             /\ ~form'.submitting
             /\ request' = <<>>
        ELSE /\ form'.submitting
             /\ Len(request') = 1
             /\ <<request'[1].guest_name, request'[1].guest_email,
                  request'[1].check_in, request'[1].check_out>> = Fields(form)
             /\ request'[1].room_id = FormRoom.id]_vars

\* submitting is true exactly while the request is in flight, with neither
\* success nor error set
SubmittingWhileInFlight ==
    [](/\ form.submitting <=> request /= <<>>
       /\ form.submitting => (form.error = <<>> /\ ~form.success))

\* submitting is set back to false
SubmittingEnds == form.submitting ~> ~form.submitting

\* a rejection leaves the thrown Error's message in error and keeps the
\* fields; a resolution sets success and resets the fields to the today and
\* tomorrow of the render that was submitted
SettledOutcome(outcome) ==
    /\ ~form'.submitting
    /\ IF outcome.kind = "reject"
       THEN /\ ~form'.success
            /\ Fields(form') = Fields(form)
            /\ outcome.thrown.isError => form'.error = <<outcome.thrown.message>>
            /\ ~outcome.thrown.isError => form'.error = <<"Failed to create booking">>
       ELSE /\ form'.success
            /\ Fields(form') = <<<<>>, <<>>, request[1].today, request[1].tomorrow>>

\* C10 as amended: a submit with checkIn < today or checkOut <= checkIn sets
\* an error and neither calls the createBooking API nor sets submitting;
\* otherwise submitting is true while the request is in flight and is set
\* back to false whether the request resolves or rejects; on rejection error
\* is the thrown Error's message and the fields are kept, on resolution
\* success is true and the fields are reset; and exactly one of success and
\* error is set on completion unless the request resolved and the onSuccess
\* callback threw, when error is set beside success.
C10_SubmitLifecycle ==
    /\ SubmitChecked
    /\ SubmittingWhileInFlight
    /\ SubmittingEnds
    /\ [][\A outcome \in Outcomes :
            Settle(outcome) =>
                /\ SettledOutcome(outcome)
                /\ (outcome.kind = "resolve" /\ outcome.onSuccess = "throws")
                      => form'.error /= <<>>
                /\ ~(outcome.kind = "resolve" /\ outcome.onSuccess = "throws")
                      => (form'.success <=> form'.error = <<>>)]_vars

\* C10 as claimed: ... on completion exactly one of success and error is set.
C10_ExactlyOneOfSuccessAndError ==
    [][Settles => (form'.success <=> form'.error = <<>>)]_vars

\* a request that was sent with entered fields has resolved: success is set,
\* error is not, submitting is back to false and the fields are reset
C10_Witness ==
    /\ form.success
    /\ form.error = <<>>
    /\ ~form.submitting
    /\ request = <<>>
    /\ Fields(form) = <<<<>>, <<>>, form.today, form.tomorrow>>

====
